---- MODULE Spec2Model ----
(***************************************************************************)
(* github-sync (src/main.go, lines 1-334): startup reconciliation of the   *)
(* configured repositories (main, clone, getBranch, pull, registerHook)    *)
(* and the push-webhook deploy sequence (webhookHandler).                  *)
(*                                                                         *)
(* Strings the program takes apart (repository ids, names, paths) are      *)
(* sequences of one-character strings; strings it only compares or passes  *)
(* on (branch, install command, unit name, URL) are TLA+ strings.          *)
(* External programs and the GitHub API are the environment: each call's   *)
(* outcome is a nondeterministic choice.                                   *)
(***************************************************************************)
EXTENDS Integers, Sequences, FiniteSets, TLC

VARIABLES
    configFile,   \* ~/repos.json on disk: [readable, repos]
    mpc,          \* main: position of the startup goroutine
    config,       \* main: the map readConfig returned (line 24)
    todo,         \* main: keys the range loop has not visited yet (line 30)
    cur,          \* main: the key (id) of the current iteration
    fs,           \* local file system: state of each checkout path
    hooks,        \* GitHub: the hook list of each repository
    blog,         \* requests main has issued in this process, in order
    registered,   \* repositories for which a registerHook call has returned nil
    restarts,     \* process starts after the first one
    hpc,          \* webhookHandler: position of each request goroutine
    body,         \* webhookHandler: r.Body of the delivery
    req,          \* webhookHandler: the decoded WebhookRequest (line 240)
    repos,        \* webhookHandler: the map readConfig returned (line 248)
    cmds,         \* webhookHandler: external commands issued by the delivery
    status,       \* webhookHandler: status written to the ResponseWriter (0: none)
    text,         \* webhookHandler: body written to the ResponseWriter
    svc           \* systemd: the unit's state and the delivery that last changed it

bootVars == <<mpc, config, todo, cur, fs, hooks, blog, registered, restarts>>
serveVars == <<hpc, body, req, repos, cmds, status, text, svc>>
vars == <<configFile, bootVars, serveVars>>

----------------------------------------------------------------------------
(* Values *)

\* A nil pointer (Repo.Service, WebhookRequest.Repository) or an unset local.
Nil == [nil |-> TRUE]

RepoAB == <<"a", "/", "b">>
RepoCD == <<"c", "/", "d">>
RepoXY == <<"x", "/", "y">>
NoID == <<>>
NameB == <<"b">>
NameD == <<"d">>
NameY == <<"y">>
HomeDir == <<"~">>
ExternalURL == "https://ci.example/hook"

StatusOK == 200
StatusBadRequest == 400
StatusInternalServerError == 500
StatusCreated == 201
\* A status GitHub answers when it refuses to create a hook.
StatusUnprocessable == 422

Handlers == {"h1", "h2"}

\* type Repo struct (lines 143-148); Service is a pointer.
NewRepo(id, branch, install, service) ==
    [ID |-> id, Branch |-> branch, Install |-> install, Service |-> service]

\* The zero value of Repo, which a map lookup of a missing key returns.
ZeroRepo == NewRepo(NoID, "", "", Nil)

\* type SystemdService struct (lines 150-156): only Name is read.
NewService(name) == [Name |-> name]

----------------------------------------------------------------------------
(* Pure functions *)

RECURSIVE SplitFrom(_, _, _, _)
SplitFrom(s, sep, i, acc) ==
    IF i > Len(s) THEN <<acc>>
    ELSE IF s[i] = sep THEN <<acc>> \o SplitFrom(s, sep, i + 1, <<>>)
    ELSE SplitFrom(s, sep, i + 1, Append(acc, s[i]))

\* strings.Split(s, sep) for a one-character separator.
Split(s, sep) == SplitFrom(s, sep, 1, <<>>)

\* filepath.Join(a, b) for clean, non-empty a.
Join(a, b) == IF b = <<>> THEN a ELSE a \o <<"/">> \o b

\* readConfig (lines 129-141): the decoded map, or an error.
readConfig(file) ==
    IF file.readable THEN [err |-> FALSE, repos |-> file.repos]
    ELSE [err |-> TRUE, repos |-> << >>]

\* repo, ok := repos[repoID] (line 254).
LookupOkAlways(rs, id) == TRUE
LookupOk(rs, id) == id \in DOMAIN rs
Lookup(rs, id) == IF id \in DOMAIN rs THEN rs[id] ELSE ZeroRepo

\* json.NewDecoder(r.Body).Decode(req) (lines 240-241) on the request bodies
\* of Bodies: a body that is no JSON object fails; a JSON object without a
\* "repository" member leaves req.Repository nil.
Decode(b) ==
    IF b.kind = "invalid" THEN [err |-> TRUE, val |-> Nil]
    ELSE IF b.kind = "object" /\ b.hasRepository
         THEN [err |-> FALSE,
               val |-> [Repository |-> [Name |-> b.name, FullName |-> b.full_name]]]
         ELSE [err |-> FALSE, val |-> [Repository |-> Nil]]

InvalidBody == [kind |-> "invalid"]
EmptyObjectBody == [kind |-> "object", hasRepository |-> FALSE]
PushBody(name, full) ==
    [kind |-> "object", hasRepository |-> TRUE, name |-> name, full_name |-> full]

Bodies ==
    {InvalidBody, EmptyObjectBody,
     PushBody(NameB, RepoAB), PushBody(NameD, RepoAB), PushBody(NameY, RepoXY)}

\* The install command and service of the entry of a/b in repos.json:
\* with and without a unit, without a service object, without an install.
Deployments ==
    {<<"make build", NewService("svc")>>, <<"", NewService("svc")>>,
     <<"make build", NewService("")>>, <<"make build", Nil>>}

\* Contents of repos.json while the listener runs.
ServeConfigs ==
    {[readable |-> FALSE, repos |-> << >>]}
    \cup {[readable |-> TRUE, repos |-> << >>]}
    \cup {[readable |-> TRUE,
           repos |-> (RepoAB :> NewRepo(RepoAB, "main", d[1], d[2]))] :
              d \in Deployments}

\* Contents of repos.json that main read at startup, before it listened: no
\* repository, or a/b with a unit and an install command.
StartConfigs ==
    {[readable |-> TRUE, repos |-> << >>],
     [readable |-> TRUE,
      repos |-> (RepoAB :> NewRepo(RepoAB, "main", "make build", NewService("svc")))]}

----------------------------------------------------------------------------
(* webhookHandler (lines 236-325), one action per section of the handler *)

\* A command run by the handler: captured says whether its output was
\* collected (CombinedOutput) or went to the process's own os.Stdout and
\* os.Stderr (cmd.Stdout = os.Stdout; cmd.Stderr = os.Stderr).
Cmd(argv, dir, ok, captured) ==
    [argv |-> argv, dir |-> dir, ok |-> ok, captured |-> captured]

\* What a command writes to stdout and stderr.
CombinedOutput(argv) == <<"output of">> \o argv \o <<"\n">>

Space == {" ", "\n", "\t"}

RECURSIVE TrimLeft(_)
TrimLeft(t) == IF t # <<>> /\ Head(t) \in Space THEN TrimLeft(Tail(t)) ELSE t

RECURSIVE TrimRight(_)
TrimRight(t) ==
    IF t # <<>> /\ t[Len(t)] \in Space THEN TrimRight(SubSeq(t, 1, Len(t) - 1)) ELSE t

\* strings.TrimSpace
TrimSpace(t) == TrimRight(TrimLeft(t))

\* err.Error() of the *exec.ExitError of a command that exits non-zero.
ExitError == "exit status 1"

\* pull (lines 119-127): fmt.Errorf("%s: %s", err, strings.TrimSpace(string(b)))
pullErrorBare(argv) == <<ExitError>>
pullError(argv) == <<ExitError, ": ">> \o TrimSpace(CombinedOutput(argv))

\* err.Error() after cmd.Run() with the output not captured (lines 275-277).
runError(argv) == <<ExitError>>

\* The text of the 500 response for a failed command.
ErrorText(argv, captured) == IF captured THEN pullError(argv) ELSE runError(argv)

\* path := filepath.Join(util.HomeDir(), req.Repository.Name) (line 261)
Path(h) == Join(HomeDir, req[h].Repository.Name)

TheRepo(h) == Lookup(repos[h].repos, req[h].Repository.FullName)

\* http.Error(w, ..., code); return
Abort(h, code, msg) ==
    /\ status' = [status EXCEPT ![h] = code]
    /\ text' = [text EXCEPT ![h] = msg]
    /\ hpc' = [hpc EXCEPT ![h] = "done"]

\* A nil dereference: the goroutine panics, net/http recovers it and closes
\* the connection without a response written by the handler.
Panic(h) ==
    /\ hpc' = [hpc EXCEPT ![h] = "panicked"]
    /\ UNCHANGED <<status, text>>

Goto(h, pc) ==
    /\ hpc' = [hpc EXCEPT ![h] = pc]
    /\ UNCHANGED <<status, text>>

\* Lines 237-245: the server hands a delivery to a handler goroutine, which
\* decodes the body.
DeliverOneAtATime(h, b) ==
    /\ mpc = "listening"
    /\ \A g \in Handlers : hpc[g] = "idle"
    /\ body' = [body EXCEPT ![h] = b]
    /\ IF Decode(b).err
       THEN Abort(h, StatusBadRequest, <<"invalid character">>) /\ UNCHANGED req
       ELSE Goto(h, "config") /\ req' = [req EXCEPT ![h] = Decode(b).val]
    /\ UNCHANGED <<configFile, bootVars, repos, cmds, svc>>
Deliver(h, b) ==
    /\ mpc = "listening"
    /\ hpc[h] = "idle"
    /\ body' = [body EXCEPT ![h] = b]
    /\ IF Decode(b).err
       THEN Abort(h, StatusBadRequest, <<"invalid character">>) /\ UNCHANGED req
       ELSE Goto(h, "config") /\ req' = [req EXCEPT ![h] = Decode(b).val]
    /\ UNCHANGED <<configFile, bootVars, repos, cmds, svc>>

\* Lines 247-258: read the configuration and look the repository up.
ReadConfigAtStartup(h) ==
    /\ hpc[h] = "config"
    /\ repos' = [repos EXCEPT ![h] = [err |-> FALSE, repos |-> config]]
    /\ IF req[h].Repository = Nil
       THEN Panic(h)
       ELSE IF ~LookupOk(config, req[h].Repository.FullName)
       THEN Abort(h, StatusBadRequest,
                  <<"repo ">> \o req[h].Repository.FullName \o <<" not configured">>)
       ELSE Goto(h, "pull")
    /\ UNCHANGED <<configFile, bootVars, body, req, cmds, svc>>
ReadConfig(h) ==
    /\ hpc[h] = "config"
    /\ repos' = [repos EXCEPT ![h] = readConfig(configFile)]
    /\ IF readConfig(configFile).err
       THEN Abort(h, StatusInternalServerError, <<"open repos.json">>)
       ELSE IF req[h].Repository = Nil
       THEN Panic(h)
       ELSE IF ~LookupOk(readConfig(configFile).repos, req[h].Repository.FullName)
       THEN Abort(h, StatusBadRequest,
                  <<"repo ">> \o req[h].Repository.FullName \o <<" not configured">>)
       ELSE Goto(h, "pull")
    /\ UNCHANGED <<configFile, bootVars, body, req, cmds, svc>>

\* cmd.Run() / pull(path) of one section: the command is logged with its
\* outcome; a failure answers 500 and returns, a success goes on to `next`.
RunStep(h, argv, ok, next, captured) ==
    /\ cmds' = [cmds EXCEPT ![h] = Append(@, Cmd(argv, Path(h), ok, captured))]
    /\ IF ok THEN Goto(h, next)
       ELSE Abort(h, StatusInternalServerError, ErrorText(argv, captured))

\* Lines 260-266.
Pull(h) ==
    /\ hpc[h] = "pull"
    /\ \E ok \in BOOLEAN : RunStep(h, <<"git", "pull">>, ok, "stop", TRUE)
    /\ UNCHANGED <<configFile, bootVars, body, req, repos, svc>>

\* Lines 268-280.
StopServiceSkipped(h) ==
    /\ hpc[h] = "stop"
    /\ Goto(h, "install")
    /\ UNCHANGED <<configFile, bootVars, body, req, repos, cmds, svc>>
StopService(h) ==
    /\ hpc[h] = "stop"
    /\ IF TheRepo(h).Service = Nil
       THEN Panic(h) /\ UNCHANGED <<cmds, svc>>
       ELSE IF TheRepo(h).Service.Name = ""
       THEN Goto(h, "install") /\ UNCHANGED <<cmds, svc>>
       ELSE \E ok \in BOOLEAN :
               /\ RunStep(h, <<"systemctl", "stop", TheRepo(h).Service.Name>>, ok, "install", FALSE)
               /\ svc' = IF ok THEN [running |-> FALSE, by |-> h] ELSE svc
    /\ UNCHANGED <<configFile, bootVars, body, req, repos>>

\* Lines 282-294.
InstallIgnoringFailure(h) ==
    /\ hpc[h] = "install"
    /\ IF TheRepo(h).Install = ""
       THEN Goto(h, "reload") /\ UNCHANGED cmds
       ELSE \E ok \in BOOLEAN :
               /\ cmds' = [cmds EXCEPT ![h] =
                              Append(@, Cmd(<<"bash", "-c", TheRepo(h).Install>>, Path(h),
                                            ok, FALSE))]
               /\ Goto(h, "reload")
    /\ UNCHANGED <<configFile, bootVars, body, req, repos, svc>>
Install(h) ==
    /\ hpc[h] = "install"
    /\ IF TheRepo(h).Install = ""
       THEN Goto(h, "reload") /\ UNCHANGED cmds
       ELSE \E ok \in BOOLEAN :
               RunStep(h, <<"bash", "-c", TheRepo(h).Install>>, ok, "reload", FALSE)
    /\ UNCHANGED <<configFile, bootVars, body, req, repos, svc>>

\* Lines 296-308.
Reload(h) ==
    /\ hpc[h] = "reload"
    /\ IF TheRepo(h).Service.Name = ""
       THEN Goto(h, "start") /\ UNCHANGED cmds
       ELSE \E ok \in BOOLEAN :
               RunStep(h, <<"systemctl", "daemon-reload">>, ok, "start", FALSE)
    /\ UNCHANGED <<configFile, bootVars, body, req, repos, svc>>

\* Lines 310-322.
StartService(h) ==
    /\ hpc[h] = "start"
    /\ IF TheRepo(h).Service.Name = ""
       THEN Goto(h, "respond") /\ UNCHANGED <<cmds, svc>>
       ELSE \E ok \in BOOLEAN :
               /\ RunStep(h, <<"systemctl", "start", TheRepo(h).Service.Name>>, ok, "respond", FALSE)
               /\ svc' = IF ok THEN [running |-> TRUE, by |-> h] ELSE svc
    /\ UNCHANGED <<configFile, bootVars, body, req, repos>>

\* Line 324: the first write to w sends status 200.
Respond(h) ==
    /\ hpc[h] = "respond"
    /\ status' = [status EXCEPT ![h] = StatusOK]
    /\ text' = [text EXCEPT ![h] = <<"ok in", "N", "ms">>]
    /\ hpc' = [hpc EXCEPT ![h] = "done"]
    /\ UNCHANGED <<configFile, bootVars, body, req, repos, cmds, svc>>

\* The handler has returned (or panicked): its goroutine ends and its locals
\* are gone; the server goes on to serve the next delivery.
Finish(h) ==
    /\ hpc[h] \in {"done", "panicked"}
    /\ hpc' = [hpc EXCEPT ![h] = "idle"]
    /\ body' = [body EXCEPT ![h] = Nil]
    /\ req' = [req EXCEPT ![h] = Nil]
    /\ repos' = [repos EXCEPT ![h] = Nil]
    /\ cmds' = [cmds EXCEPT ![h] = <<>>]
    /\ status' = [status EXCEPT ![h] = 0]
    /\ text' = [text EXCEPT ![h] = <<>>]
    /\ UNCHANGED <<configFile, bootVars, svc>>

\* The operator edits repos.json while the process runs.
EditConfig(c) ==
    /\ mpc = "listening"
    /\ configFile # c
    /\ configFile' = c
    /\ UNCHANGED <<bootVars, serveVars>>

InitHandlers ==
    /\ hpc = [h \in Handlers |-> "idle"]
    /\ body = [h \in Handlers |-> Nil]
    /\ req = [h \in Handlers |-> Nil]
    /\ repos = [h \in Handlers |-> Nil]
    /\ cmds = [h \in Handlers |-> <<>>]
    /\ status = [h \in Handlers |-> 0]
    /\ text = [h \in Handlers |-> <<>>]

\* The process once main has reached http.ListenAndServe (line 85): the
\* handler reads none of main's locals, only repos.json and its request.
InitServe ==
    /\ configFile \in StartConfigs
    /\ mpc = "listening"
    /\ config = readConfig(configFile).repos
    /\ todo = {}
    /\ cur = Nil
    /\ fs = << >>
    /\ hooks = << >>
    /\ blog = <<>>
    /\ registered = {}
    /\ restarts = 0
    /\ InitHandlers
    /\ svc \in {[running |-> r, by |-> "none"] : r \in BOOLEAN}

NextServe ==
    \/ \E h \in Handlers, b \in Bodies : Deliver(h, b)
    \/ \E h \in Handlers : ReadConfig(h)
    \/ \E h \in Handlers : Pull(h)
    \/ \E h \in Handlers : StopService(h)
    \/ \E h \in Handlers : Install(h)
    \/ \E h \in Handlers : Reload(h)
    \/ \E h \in Handlers : StartService(h)
    \/ \E h \in Handlers : Respond(h)
    \/ \E h \in Handlers : Finish(h)
    \/ \E c \in ServeConfigs : EditConfig(c)

SpecServe == InitServe /\ [][NextServe]_vars

----------------------------------------------------------------------------
(* The environment of main: the file system and GitHub *)

Absent == [kind |-> "absent"]
Denied == [kind |-> "denied"]
RegularFile == [kind |-> "file"]
PlainDir == [kind |-> "dir"]
Checkout(branch) == [kind |-> "checkout", branch |-> branch]

PathStates == {Absent, Denied, RegularFile, PlainDir, Checkout("main"), Checkout("dev")}

\* The branch a clone without --branch checks out.
DefaultBranch == "main"

\* os.Stat(path) (line 34).
Stat(st) ==
    IF st = Absent THEN [err |-> "ErrNotExist", isDir |-> FALSE]
    ELSE IF st = Denied THEN [err |-> "EACCES", isDir |-> FALSE]
    ELSE [err |-> "", isDir |-> st # RegularFile]

\* errors.Is(err, os.ErrNotExist) (line 36).
IsNotExist(err) == err = "ErrNotExist"

\* git -C path rev-parse --abbrev-ref HEAD (lines 107-117).
getBranch(st) ==
    IF st.kind = "checkout" THEN [err |-> FALSE, branch |-> st.branch]
    ELSE [err |-> TRUE, branch |-> ""]

\* fmt.Sprintf("https://github.com/%s.git", id) (line 41).
GitURL(id) == <<"https://github.com/">> \o id \o <<".git">>

\* The arguments of git clone (lines 93-98).
CloneArgs(path, gitURL, branch) ==
    <<"clone">>
    \o (IF branch # "" THEN <<"--branch", branch, "--single-branch">> ELSE <<>>)
    \o <<gitURL, path>>

\* type Hook, type HookConfig (lines 224-234).
Hook(name, active, events, url, contentType) ==
    [Name |-> name, Active |-> active, Events |-> events,
     Config |-> [URL |-> url, ContentType |-> contentType]]

\* includes (lines 215-222).
includes(list, s) == \E i \in DOMAIN list : list[i] = s

\* The test of line 179.
HookMatchesInactive(hook, webhookURL) ==
    /\ hook.Config.URL = webhookURL
    /\ ~hook.Active
    /\ includes(hook.Events, "push")
    /\ hook.Config.ContentType = "json"
HookMatches(hook, webhookURL) ==
    /\ hook.Config.URL = webhookURL
    /\ hook.Active
    /\ includes(hook.Events, "push")
    /\ hook.Config.ContentType = "json"

\* The hook registerHook creates (lines 185-193).
NewHookAsForm(webhookURL) == Hook("web", TRUE, <<"push">>, webhookURL, "form")
NewHook(webhookURL) == Hook("web", TRUE, <<"push">>, webhookURL, "json")

\* Hooks a repository may hold before the program first runs.
ForeignHooks ==
    {Hook("web", TRUE, <<"push">>, ExternalURL, "json"),
     Hook("web", FALSE, <<"push">>, ExternalURL, "json"),
     Hook("web", TRUE, <<"issues">>, ExternalURL, "json"),
     Hook("web", TRUE, <<"issues", "push">>, ExternalURL, "form"),
     Hook("web", TRUE, <<"push">>, "https://old.example/hook", "json")}

\* http.DefaultClient.Do of the POST (line 202): no response, or a response
\* with a status.
PostResults ==
    {[err |-> TRUE, StatusCode |-> 0],
     [err |-> FALSE, StatusCode |-> StatusCreated],
     [err |-> FALSE, StatusCode |-> StatusUnprocessable]}

\* Contents of repos.json at startup: none, a/b, or a/b and c/d; the entry of
\* a/b with and without an id and a branch.
BootEntries ==
    {NewRepo(id, b, "", Nil) : id \in {RepoAB, NoID}, b \in {"", "main"}}

BootConfigs ==
    {[readable |-> FALSE, repos |-> << >>]}
    \cup {[readable |-> TRUE, repos |-> << >>]}
    \cup {[readable |-> TRUE, repos |-> (RepoAB :> e)] : e \in BootEntries}
    \cup {[readable |-> TRUE,
           repos |-> (RepoAB :> e) @@ (RepoCD :> NewRepo(RepoCD, "main", "", Nil))] :
              e \in BootEntries}

MaxRestarts == 1

----------------------------------------------------------------------------
(* main (lines 19-90), one action per request it makes *)

\* name := strings.Split(id, "/")[1]; path := filepath.Join(HomeDir, name)
\* (lines 32-33)
PathOf(id) == Join(HomeDir, Split(id, "/")[2])

Log(e) == blog' = Append(blog, e)

\* Lines 35-53: what follows the stat of the path.
AfterStat(res) ==
    IF res.err # ""
    THEN IF IsNotExist(res.err) THEN "exited" ELSE "clone"
    ELSE IF ~res.isDir THEN "exited" ELSE "branch"

\* Lines 56-73: what follows the branch query.
AfterBranchToHooks(res, want) ==
    IF res.err THEN "exited" ELSE IF res.branch # want THEN "exited" ELSE "hooks"
AfterBranchRecloning(res, want) ==
    IF res.err THEN "exited" ELSE IF res.branch # want THEN "exited" ELSE "clone"
AfterBranchUnchecked(res, want) ==
    IF res.err THEN "exited" ELSE "pull"
AfterBranch(res, want) ==
    IF res.err THEN "exited" ELSE IF res.branch # want THEN "exited" ELSE "pull"

\* Lines 20-28.
Start ==
    /\ mpc = "start"
    /\ IF readConfig(configFile).err
       THEN mpc' = "exited" /\ UNCHANGED <<config, todo>>
       ELSE /\ mpc' = "loop"
            /\ config' = readConfig(configFile).repos
            /\ todo' = DOMAIN readConfig(configFile).repos
    /\ UNCHANGED <<configFile, cur, fs, hooks, blog, registered, restarts, serveVars>>

\* Lines 30-53: the range loop picks a key not yet visited, in any order, and
\* stats its path.
Visit(id) ==
    /\ mpc = "loop"
    /\ id \in todo
    /\ todo' = todo \ {id}
    /\ cur' = id
    /\ IF Len(Split(id, "/")) < 2
       THEN mpc' = "panicked" /\ UNCHANGED blog
       ELSE /\ Log([op |-> "stat", key |-> id, path |-> PathOf(id),
                    res |-> Stat(fs[PathOf(id)])])
            /\ mpc' = AfterStat(Stat(fs[PathOf(id)]))
    /\ UNCHANGED <<configFile, config, fs, hooks, registered, restarts, serveVars>>

\* Lines 41-46 and clone (lines 92-105).
Clone ==
    /\ mpc = "clone"
    /\ \E ok \in BOOLEAN :
          /\ Log([op |-> "clone", key |-> cur, ok |-> ok,
                  argv |-> CloneArgs(PathOf(cur), GitURL(cur), config[cur].Branch)])
          /\ mpc' = IF ok THEN "hooks" ELSE "exited"
          /\ fs' = IF ok
                   THEN [fs EXCEPT ![PathOf(cur)] =
                           Checkout(IF config[cur].Branch # "" THEN config[cur].Branch
                                    ELSE DefaultBranch)]
                   ELSE fs
    /\ UNCHANGED <<configFile, config, todo, cur, hooks, registered, restarts, serveVars>>

\* Lines 55-66 and getBranch (lines 107-117).
GetBranch ==
    /\ mpc = "branch"
    /\ Log([op |-> "branch", key |-> cur, path |-> PathOf(cur),
            res |-> getBranch(fs[PathOf(cur)])])
    /\ mpc' = AfterBranch(getBranch(fs[PathOf(cur)]), config[cur].Branch)
    /\ UNCHANGED <<configFile, config, todo, cur, fs, hooks, registered, restarts, serveVars>>

\* Lines 68-73 and pull (lines 119-127).
PullCheckout ==
    /\ mpc = "pull"
    /\ \E ok \in BOOLEAN :
          /\ Log([op |-> "pull", key |-> cur, dir |-> PathOf(cur), ok |-> ok])
          /\ mpc' = IF ok THEN "hooks" ELSE "exited"
    /\ UNCHANGED <<configFile, config, todo, cur, fs, hooks, registered, restarts, serveVars>>

\* registerHook(token, repo.ID, webhookURL), lines 159-182: the GET of the
\* hook list.  The request fails, or the body is no JSON array (GitHub
\* answers a JSON object for a repository it does not know), or the list
\* comes back and is searched for a matching hook.
ListHooks ==
    /\ mpc = "hooks"
    /\ \E out \in IF config[cur].ID \in DOMAIN hooks
                  THEN {"error", "garbled", "list"}
                  ELSE {"error", "garbled"} :
          LET repoID == config[cur].ID
              found == out = "list" /\
                       \E i \in DOMAIN hooks[repoID] : HookMatches(hooks[repoID][i], ExternalURL)
          IN  /\ Log([op |-> "list", key |-> cur, repo |-> repoID, out |-> out,
                      found |-> found])
              /\ mpc' = IF out = "error" THEN "exited"
                        ELSE IF out = "garbled" THEN "panicked"
                        ELSE IF found THEN "loop" ELSE "create"
              /\ registered' = IF found THEN registered \cup {repoID} ELSE registered
    /\ UNCHANGED <<configFile, config, todo, cur, fs, hooks, restarts, serveVars>>

\* registerHook, lines 184-212: the POST of the new hook.  GitHub stores the
\* hook as sent when it answers 201.
CreateHook ==
    /\ mpc = "create"
    /\ \E res \in PostResults :
          LET repoID == config[cur].ID
              created == ~res.err /\ res.StatusCode = StatusCreated
          IN  /\ Log([op |-> "create", key |-> cur, repo |-> repoID, res |-> res,
                      hook |-> NewHook(ExternalURL),
                      again |-> repoID \in registered])
              /\ mpc' = IF res.err \/ res.StatusCode # StatusCreated
                        THEN "exited" ELSE "loop"
              /\ hooks' = IF created
                          THEN [hooks EXCEPT ![repoID] = Append(@, NewHook(ExternalURL))]
                          ELSE hooks
              /\ registered' = IF created THEN registered \cup {repoID}
                               ELSE registered
    /\ UNCHANGED <<configFile, config, todo, cur, fs, restarts, serveVars>>

\* Lines 83-89: every key has been visited.
Listen ==
    /\ mpc = "loop"
    /\ todo = {}
    /\ \E ok \in BOOLEAN : mpc' = IF ok THEN "listening" ELSE "exited"
    /\ UNCHANGED <<configFile, config, todo, cur, fs, hooks, blog, registered,
                   restarts, serveVars>>

\* The process is started again (by systemd or the operator): main's state
\* is new, the file system and GitHub are as the last run left them.
Restart ==
    /\ mpc \in {"exited", "panicked", "listening"}
    /\ restarts < MaxRestarts
    /\ restarts' = restarts + 1
    /\ mpc' = "start"
    /\ config' = << >>
    /\ todo' = {}
    /\ cur' = Nil
    /\ blog' = <<>>
    /\ UNCHANGED <<configFile, fs, hooks, registered, serveVars>>

InitBoot ==
    /\ configFile \in BootConfigs
    /\ mpc = "start"
    /\ config = << >>
    /\ todo = {}
    /\ cur = Nil
    /\ fs \in [{PathOf(RepoAB), PathOf(RepoCD)} -> PathStates]
    /\ hooks \in [{RepoAB, RepoCD} -> {<<>>} \cup {<<f>> : f \in ForeignHooks}]
    /\ blog = <<>>
    /\ registered = {}
    /\ restarts = 0
    /\ InitHandlers
    /\ svc = [running |-> TRUE, by |-> "none"]

NextBoot ==
    \/ Start
    \/ \E id \in todo : Visit(id)
    \/ Clone
    \/ GetBranch
    \/ PullCheckout
    \/ ListHooks
    \/ CreateHook
    \/ Listen
    \/ Restart

SpecBoot == InitBoot /\ [][NextBoot]_vars

----------------------------------------------------------------------------
(* Properties of the deploy sequence *)

Finished(h) == hpc[h] \in {"done", "panicked"}

\* The delivery of h named a repository that the configuration it read holds.
Configured(h) ==
    /\ req[h] # Nil
    /\ req[h].Repository # Nil
    /\ repos[h] # Nil
    /\ ~repos[h].err
    /\ req[h].Repository.FullName \in DOMAIN repos[h].repos

\* The delivery of h named a repository that the configuration it read lacks.
Unknown(h) ==
    /\ req[h] # Nil
    /\ req[h].Repository # Nil
    /\ repos[h] # Nil
    /\ ~repos[h].err
    /\ req[h].Repository.FullName \notin DOMAIN repos[h].repos

Entry(h) == repos[h].repos[req[h].Repository.FullName]

Argv(h) == [i \in DOMAIN cmds[h] |-> cmds[h][i].argv]

AllOk(h) == \A i \in DOMAIN cmds[h] : cmds[h][i].ok

IsPrefix(s, t) == Len(s) <= Len(t) /\ \A i \in DOMAIN s : s[i] = t[i]

Systemctl(h) == {i \in DOMAIN cmds[h] : cmds[h][i].argv[1] = "systemctl"}

FullDeploy(h) ==
    /\ Configured(h)
    /\ Entry(h).Service # Nil
    /\ Entry(h).Service.Name # ""
    /\ Entry(h).Install # ""

FullSequence(h) ==
    << <<"git", "pull">>,
       <<"systemctl", "stop", Entry(h).Service.Name>>,
       <<"bash", "-c", Entry(h).Install>>,
       <<"systemctl", "daemon-reload">>,
       <<"systemctl", "start", Entry(h).Service.Name>> >>

\* C1: a delivery for a configured repository with a unit name and an install
\* command issues its commands as a prefix of pull, stop NAME, install,
\* daemon-reload, start NAME; when every step succeeds it issues all five,
\* each once and in that order, and it answers 200 only after all five.
C1_OrderedDeploy ==
    \A h \in Handlers :
        FullDeploy(h) =>
            /\ IsPrefix(Argv(h), FullSequence(h))
            /\ (status[h] = StatusOK => Argv(h) = FullSequence(h) /\ AllOk(h))
            /\ (hpc[h] = "done" /\ AllOk(h) =>
                    status[h] = StatusOK /\ Argv(h) = FullSequence(h))

C1_Witness ==
    \E h \in Handlers :
        FullDeploy(h) /\ status[h] = StatusOK /\ Len(cmds[h]) = 5

\* The delivery of h stopped the unit and then its install command failed.
InstallFailedAfterStop(h) ==
    \E i, j \in DOMAIN cmds[h] :
        /\ i < j
        /\ cmds[h][i].argv[1] = "systemctl" /\ cmds[h][i].argv[2] = "stop"
        /\ cmds[h][i].ok
        /\ cmds[h][j].argv[1] = "bash" /\ ~cmds[h][j].ok

\* C2: a failed step is the last command its delivery issues and the delivery
\* is answered 500; after a failed install that followed a successful stop the
\* delivery has issued no daemon-reload and no start, and the unit is stopped
\* unless another delivery has changed it since.
C2_ShortCircuit ==
    \A h \in Handlers :
        /\ \A i \in DOMAIN cmds[h] :
              ~cmds[h][i].ok =>
                  /\ i = Len(cmds[h])
                  /\ hpc[h] = "done"
                  /\ status[h] = StatusInternalServerError
        /\ InstallFailedAfterStop(h) =>
              /\ \A i \in DOMAIN cmds[h] :
                    /\ cmds[h][i].argv # <<"systemctl", "daemon-reload">>
                    /\ cmds[h][i].argv[2] # "start"
              /\ (svc.by = h => ~svc.running)

C2_Witness ==
    \E h \in Handlers :
        InstallFailedAfterStop(h) /\ svc.by = h /\ hpc[h] = "done"

NoService(h) ==
    Configured(h) /\ (Entry(h).Service = Nil \/ Entry(h).Service.Name = "")

\* C3: a delivery for a repository without a service object, or with an empty
\* unit name, never runs systemctl and, when pull and install succeed, has
\* run pull, then the install command if there is one, and is answered 200.
C3_NoServiceDeploys ==
    \A h \in Handlers :
        NoService(h) =>
            /\ Systemctl(h) = {}
            /\ (Finished(h) /\ AllOk(h) =>
                    /\ status[h] = StatusOK
                    /\ Argv(h) = << <<"git", "pull">> >> \o
                          (IF Entry(h).Install = "" THEN <<>>
                           ELSE << <<"bash", "-c", Entry(h).Install>> >>))

\* C4: a delivery whose full_name is no key of the configuration it read is
\* answered 400 and has issued no command.
C4_UnknownRepository ==
    \A h \in Handlers :
        Unknown(h) =>
            /\ hpc[h] = "done"
            /\ status[h] = StatusBadRequest
            /\ cmds[h] = <<>>

C4_Witness ==
    \E h \in Handlers :
        /\ Unknown(h)
        /\ status[h] = StatusBadRequest
        /\ repos[h].repos # << >>
        /\ body[h] = PushBody(NameY, RepoXY)

\* C10: a delivery whose body is not JSON, or is JSON without a repository
\* object, is answered 400 and issues no command (the configuration being
\* readable).
C10_MalformedPayload ==
    \A h \in Handlers :
        /\ body[h] \in {InvalidBody, EmptyObjectBody}
        /\ Finished(h)
        /\ (repos[h] = Nil \/ ~repos[h].err)
        => status[h] = StatusBadRequest /\ cmds[h] = <<>>

----------------------------------------------------------------------------
(* Properties of startup reconciliation *)

\* The requests main has logged for the config key k in this process.
Requests(k, ops) == {i \in DOMAIN blog : blog[i].key = k /\ blog[i].op \in ops}

StatIs(i, err) == blog[i].op = "stat" /\ blog[i].res.err = err

\* Entry i is a branch query that found the checkout on the configured branch.
OnConfiguredBranch(i) ==
    /\ blog[i].op = "branch"
    /\ ~blog[i].res.err
    /\ blog[i].res.branch = config[blog[i].key].Branch

\* Entry i is a branch query that found the checkout on another branch.
OnWrongBranch(i) ==
    /\ blog[i].op = "branch"
    /\ ~blog[i].res.err
    /\ blog[i].res.branch # config[blog[i].key].Branch

\* C5: when the stat of a repository's path reports not-found, the next
\* request is git clone into that path, with --branch B --single-branch when
\* a branch is configured, and a successful clone is followed by the hook
\* requests; the pass does not end there.
C5_AbsentIsCloned ==
    \A i \in DOMAIN blog :
        StatIs(i, "ErrNotExist") =>
            IF i = Len(blog)
            THEN mpc = "clone" /\ cur = blog[i].key
            ELSE /\ blog[i + 1].op = "clone"
                 /\ blog[i + 1].argv =
                       CloneArgs(blog[i].path, GitURL(blog[i].key),
                                 config[blog[i].key].Branch)
                 /\ (blog[i + 1].ok /\ i + 1 = Len(blog) => mpc = "hooks")

\* C6: a path that is a checkout on the configured branch is pulled next, and
\* no git clone is run for its repository.
C6_ValidIsPulled ==
    \A i \in DOMAIN blog :
        OnConfiguredBranch(i) =>
            /\ Requests(blog[i].key, {"clone"}) = {}
            /\ IF i = Len(blog)
               THEN mpc = "pull" /\ cur = blog[i].key
               ELSE /\ blog[i + 1].op = "pull"
                    /\ blog[i + 1].key = blog[i].key
                    /\ blog[i + 1].dir = blog[i].path

C6_Witness ==
    \E i \in DOMAIN blog :
        /\ OnConfiguredBranch(i)
        /\ i < Len(blog)
        /\ blog[i + 1].op = "pull"
        /\ fs[blog[i].path] = Checkout("main")

\* C7: a path that is a regular file, or a checkout on another branch than
\* the configured one, ends the pass: it is the last request of the process,
\* and no clone, pull or hook request is made for that repository.
C7_FileOrWrongBranchAborts ==
    \A i \in DOMAIN blog :
        \/ (blog[i].op = "stat" /\ blog[i].res.err = "" /\ ~blog[i].res.isDir)
        \/ OnWrongBranch(i)
        => /\ i = Len(blog)
           /\ mpc = "exited"
           /\ Requests(blog[i].key, {"clone", "pull", "list", "create"}) = {}

C7_Witness ==
    \E i \in DOMAIN blog :
        /\ OnWrongBranch(i)
        /\ blog[i].res.branch = "dev"
        /\ config[blog[i].key].Branch = "main"
        /\ mpc = "exited"

\* A request of main that failed.
Failed(e) ==
    \/ e.op = "stat" /\ (e.res.err \notin {"", "ErrNotExist"} \/ (e.res.err = "" /\ ~e.res.isDir))
    \/ e.op = "branch" /\ (e.res.err \/ e.res.branch # config[e.key].Branch)
    \/ e.op \in {"clone", "pull"} /\ ~e.ok
    \/ e.op = "list" /\ e.out # "list"
    \/ e.op = "create" /\ (e.res.err \/ e.res.StatusCode # StatusCreated)

\* Validation, clone or pull, and hook registration succeeded for key k.
Reconciled(k) ==
    /\ \E i \in Requests(k, {"stat"}) : ~Failed(blog[i])
    /\ \E i \in Requests(k, {"clone", "pull"}) : blog[i].ok
    /\ \/ \E i \in Requests(k, {"list"}) : blog[i].found
       \/ \E i \in Requests(k, {"create"}) :
             ~blog[i].res.err /\ blog[i].res.StatusCode = StatusCreated

\* C8: the listener runs only when every configured repository was validated,
\* cloned or pulled, and had its hook registered; a failed request is the
\* last request of the process, which then never listens.
C8_StartupGate ==
    /\ mpc = "listening" => \A k \in DOMAIN config : Reconciled(k)
    /\ \A i \in DOMAIN blog :
          Failed(blog[i]) => i = Len(blog) /\ mpc \in {"exited", "panicked"}

Matching(r) == {i \in DOMAIN hooks[r] : HookMatches(hooks[r][i], ExternalURL)}

\* C9: once a registerHook call for a repository has returned nil, no later
\* call (in this process or after a restart) sends a create request for it,
\* and the repository holds exactly one hook that matches the external URL,
\* active, with the push event and content type json.
C9_RegisterHookIdempotent ==
    /\ \A i \in DOMAIN blog : blog[i].op = "create" => ~blog[i].again
    /\ \A r \in registered : Cardinality(Matching(r)) = 1

C9_Witness ==
    /\ restarts > 0
    /\ RepoAB \in registered
    /\ hooks[RepoAB] = <<Hook("web", FALSE, <<"push">>, ExternalURL, "json"),
                         NewHook(ExternalURL)>>
    /\ \E i \in DOMAIN blog :
          blog[i].op = "list" /\ blog[i].repo = RepoAB /\ blog[i].found

----------------------------------------------------------------------------
(* Properties of the request phase as a whole *)

\* C11: every delivery that has ended has been answered with exactly one
\* status, 200, 400 or 500, and the listener is still serving.
C11_OneResponsePerDelivery ==
    \A h \in Handlers :
        Finished(h) =>
            /\ status[h] \in {StatusOK, StatusBadRequest, StatusInternalServerError}
            /\ mpc = "listening"

\* The last command of the delivery of h exited non-zero.
StepFailed(h) == cmds[h] # <<>> /\ ~cmds[h][Len(cmds[h])].ok

LastCmd(h) == cmds[h][Len(cmds[h])]

EndsWith(t, suffix) ==
    /\ Len(suffix) <= Len(t)
    /\ SubSeq(t, Len(t) - Len(suffix) + 1, Len(t)) = suffix

\* C12 as claimed: the text of the 500 response of a failed step is that
\* step's combined output.
C12_OutputInResponse ==
    \A h \in Handlers :
        StepFailed(h) =>
            EndsWith(text[h], TrimSpace(CombinedOutput(LastCmd(h).argv)))

\* C12 as amended: the 500 response of a failed step carries the step's exit
\* error; after a failed git pull it is followed by pull's trimmed combined
\* output, after a failed stop, install, daemon-reload or start it is the
\* exit error alone, the command's output having gone to the process's own
\* stdout and stderr.
C12_ExitErrorInResponse ==
    \A h \in Handlers :
        StepFailed(h) =>
            /\ status[h] = StatusInternalServerError
            /\ text[h][1] = ExitError
            /\ IF LastCmd(h).argv = <<"git", "pull">>
               THEN /\ LastCmd(h).captured
                    /\ text[h] = <<ExitError, ": ">>
                                    \o TrimSpace(CombinedOutput(LastCmd(h).argv))
                    /\ text[h][Len(text[h])] \notin Space
               ELSE /\ ~LastCmd(h).captured
                    /\ text[h] = <<ExitError>>

C12_Witness ==
    \E h \in Handlers :
        /\ StepFailed(h)
        /\ LastCmd(h).argv = <<"bash", "-c", "make build">>
        /\ text[h] = <<ExitError>>
        /\ \E g \in Handlers :
              StepFailed(g) /\ LastCmd(g).argv = <<"git", "pull">> /\ Len(text[g]) > 2

\* C13: deliveries do not exclude one another.  Whatever the other deliveries
\* are doing, an idle handler goroutine takes a delivery for a/b and a handler
\* at a step takes that step; so the stop, install and start steps of two
\* deliveries for one repository interleave (C13_Witness: the install of one
\* delivery is due while the unit runs, started by the other delivery after
\* the first one stopped it).
C13_NoMutualExclusion ==
    \A h \in Handlers :
        /\ hpc[h] = "idle" => ENABLED Deliver(h, PushBody(NameB, RepoAB))
        /\ hpc[h] = "config" => ENABLED ReadConfig(h)
        /\ hpc[h] = "pull" => ENABLED Pull(h)
        /\ hpc[h] = "stop" => ENABLED StopService(h)
        /\ hpc[h] = "install" => ENABLED Install(h)
        /\ hpc[h] = "reload" => ENABLED Reload(h)
        /\ hpc[h] = "start" => ENABLED StartService(h)

C13_Witness ==
    \E h, g \in Handlers :
        /\ h # g
        /\ Configured(h) /\ Configured(g)
        /\ req[h].Repository = req[g].Repository
        /\ hpc[h] = "install"
        /\ Entry(h).Install # ""
        /\ Len(cmds[h]) = 2
        /\ cmds[h][2].argv = <<"systemctl", "stop", "svc">> /\ cmds[h][2].ok
        /\ cmds[g] # <<>>
        /\ cmds[g][Len(cmds[g])].argv = <<"systemctl", "start", "svc">>
        /\ cmds[g][Len(cmds[g])].ok
        /\ svc = [running |-> TRUE, by |-> g]

----------------------------------------------------------------------------
(* Further properties of startup reconciliation *)

\* C14: a stat that fails with another error than not-found ends the pass:
\* it is the last request of the process, and no clone, pull or hook request
\* is made for that repository.
C14_StatErrorHalts ==
    \A i \in DOMAIN blog :
        blog[i].op = "stat" /\ blog[i].res.err \notin {"", "ErrNotExist"} =>
            /\ i = Len(blog)
            /\ mpc = "exited"
            /\ Requests(blog[i].key, {"clone", "pull", "list", "create"}) = {}

\* The hook list s, or s with one more hook at its end, that hook being
\* {web, active, [push], url, json} and s holding no hook with that url,
\* active, the push event and content type json.
GrowsByNeededHook(s, t, url) ==
    \/ t = s
    \/ /\ t = Append(s, [Name |-> "web", Active |-> TRUE, Events |-> <<"push">>,
                         Config |-> [URL |-> url, ContentType |-> "json"]])
       /\ ~\E i \in DOMAIN s :
             /\ s[i].Config.URL = url
             /\ s[i].Active
             /\ \E j \in DOMAIN s[i].Events : s[i].Events[j] = "push"
             /\ s[i].Config.ContentType = "json"

\* C15: registerHook never updates or deletes a hook.  In every step the
\* hook list of every repository stays as it is or gets one more hook at its
\* end, and it gets one only when none of its hooks has the external URL, is
\* active, has the push event and content type json; a list request that
\* found such a hook is followed by no create request.
C15_HooksOnlyGrow ==
    /\ [][\A r \in DOMAIN hooks :
             GrowsByNeededHook(hooks[r], hooks'[r], ExternalURL)]_vars
    /\ [](\A i \in DOMAIN blog :
             blog[i].op = "list" /\ blog[i].found =>
                /\ blog[i].repo \in registered
                /\ i < Len(blog) => blog[i + 1].op = "stat")

C15_Witness ==
    /\ restarts = 0
    /\ hooks[RepoAB] = <<Hook("web", TRUE, <<"issues", "push">>, ExternalURL, "form"),
                         NewHook(ExternalURL)>>
    /\ hooks[RepoCD] = <<Hook("web", TRUE, <<"push">>, ExternalURL, "json")>>
    /\ \E i, j \in DOMAIN blog :
          /\ blog[i].op = "create" /\ blog[i].repo = RepoAB
          /\ blog[i].res = [err |-> FALSE, StatusCode |-> StatusCreated]
          /\ blog[j].op = "list" /\ blog[j].repo = RepoCD /\ blog[j].found

\* C17: the hook requests made for a config key are addressed to the
\* repository of that key.
C17_HookRequestsUseKey ==
    \A i \in DOMAIN blog :
        blog[i].op \in {"list", "create"} => blog[i].repo = blog[i].key

\* C18: with an empty configured branch, a path that holds a checkout on a
\* named branch is valid: it is pulled next and the pass does not end there.
C18_EmptyBranchIsValid ==
    \A i \in DOMAIN blog :
        /\ blog[i].op = "branch"
        /\ ~blog[i].res.err
        /\ config[blog[i].key].Branch = ""
        => IF i = Len(blog)
           THEN mpc = "pull" /\ cur = blog[i].key
           ELSE blog[i + 1].op = "pull" /\ blog[i + 1].key = blog[i].key

\* Entry i is a clone or a pull that succeeded.
Synced(i) == blog[i].op \in {"clone", "pull"} /\ blog[i].ok

\* C19 as claimed: no hook request is made before every configured
\* repository has been cloned or pulled successfully.
C19_HooksAfterAllSynced ==
    \A i \in DOMAIN blog :
        blog[i].op \in {"list", "create"} =>
            \A k \in DOMAIN config :
                \E j \in 1..(i - 1) : blog[j].key = k /\ Synced(j)

\* C19: the hook of a repository is registered within that repository's turn
\* of the loop.  A list request directly follows the successful clone or pull
\* of the same config key, and a create request directly follows the list
\* request of the same key that found no matching hook; nothing is required
\* of the other keys.
C19_HookAfterOwnSync ==
    \A i \in DOMAIN blog :
        /\ blog[i].op = "list" =>
              i > 1 /\ Synced(i - 1) /\ blog[i - 1].key = blog[i].key
        /\ blog[i].op = "create" =>
              /\ i > 1
              /\ blog[i - 1].op = "list"
              /\ blog[i - 1].key = blog[i].key
              /\ blog[i - 1].out = "list"
              /\ ~blog[i - 1].found

\* A hook was created for one key and the pass then ended at the other key,
\* which was never cloned or pulled.
C19_Witness ==
    /\ mpc = "exited"
    /\ DOMAIN config = {RepoAB, RepoCD}
    /\ \E i \in DOMAIN blog :
          /\ blog[i].op = "create"
          /\ blog[i].res = [err |-> FALSE, StatusCode |-> StatusCreated]
          /\ hooks[blog[i].repo] # <<>>
          /\ \E k \in DOMAIN config :
                /\ k # blog[i].key
                /\ Requests(k, {"stat"}) # {}
                /\ \A j \in Requests(k, {"clone", "pull"}) : ~blog[j].ok
                /\ Requests(k, {"list", "create"}) = {}

----------------------------------------------------------------------------
(* Further properties of a webhook delivery *)

\* C16: the commands of a delivery for a configured repository run in the
\* checkout directory of that repository, the path main derives from the
\* config key: home joined with the part of full_name after the '/'.
C16_RunsInLookedUpCheckout ==
    \A h \in Handlers :
        Configured(h) =>
            \A i \in DOMAIN cmds[h] :
                cmds[h][i].argv[1] \in {"git", "bash"} =>
                    cmds[h][i].dir = PathOf(req[h].Repository.FullName)

\* The handler of h leaves the step at which it reads repos.json.
ReadsConfig(h) == hpc[h] = "config" /\ hpc'[h] # "config"

\* C20: a delivery is decided against repos.json as it is when the delivery
\* is handled.  At the step where the handler reads the file, a repository
\* the file holds at that moment is accepted with the entry the file holds,
\* and one it does not hold is answered 400, whatever the file held at
\* startup; the install command and the unit the delivery then runs are the
\* ones of the entry it read.
C20_ConfigReadPerDelivery ==
    /\ [][\A h \in Handlers :
             ReadsConfig(h) /\ configFile.readable /\ req[h].Repository # Nil =>
                IF req[h].Repository.FullName \in DOMAIN configFile.repos
                THEN /\ hpc'[h] = "pull"
                     /\ repos'[h].repos[req[h].Repository.FullName] =
                           configFile.repos[req[h].Repository.FullName]
                ELSE /\ hpc'[h] = "done"
                     /\ status'[h] = StatusBadRequest]_vars
    /\ [](\A h \in Handlers :
             Configured(h) =>
                \A i \in DOMAIN cmds[h] :
                    /\ cmds[h][i].argv[1] = "bash" =>
                          cmds[h][i].argv = <<"bash", "-c", Entry(h).Install>>
                    /\ cmds[h][i].argv[1] = "systemctl" /\ Len(cmds[h][i].argv) = 3 =>
                          cmds[h][i].argv[3] = Entry(h).Service.Name)

\* A delivery for a repository that repos.json did not hold at startup was
\* deployed with the install command and unit added since.
C20_Witness ==
    \E h \in Handlers :
        /\ Configured(h)
        /\ status[h] = StatusOK
        /\ req[h].Repository.FullName \notin DOMAIN config
        /\ Argv(h) = <<<<"git", "pull">>, <<"systemctl", "stop", "svc">>,
                       <<"bash", "-c", "make build">>,
                       <<"systemctl", "daemon-reload">>,
                       <<"systemctl", "start", "svc">>>>

====
